---- MODULE Spec2Model ----
(***************************************************************************)
(* Model of the colony backend (src/backend/app): the auth subsystem       *)
(* (password hashing, JWT codec, authentication gate, credential service)  *)
(* and the HTTP boundary that turns its failures into responses.           *)
(*                                                                         *)
(* Time is counted in ticks, TicksPerSecond ticks to the second, so that   *)
(* the truncation of timestamps to whole seconds is visible.               *)
(* The names InvalidTokenException, InvalidCredentialsException,           *)
(* UserAlreadyExistsException and IncorrectPasswordException imported by   *)
(* utils.py, dependencies.py and router.py are read as the classes         *)
(* exceptions.py defines with the suffix Error.                            *)
(***************************************************************************)
EXTENDS Integers, FiniteSets, Sequences, TLC

VARIABLES users, pending, held, now, resp, lastpw, methods

vars == <<users, pending, held, now, resp, lastpw, methods>>

(* ------------------------------ bounds -------------------------------- *)

\* The clock is watched for MaxTicks ticks from the start, and from one tick
\* before a token lifetime has passed until MaxTicks ticks after it.
MaxTicks == 2
\* Ticks that may pass between the two clock reads of create_access_token.
MaxDrift == 1
\* Tokens clients hold at a time.
MaxHeld == 1
\* Request workers running concurrently in SpecRace.
MaxWorkers == 2
\* Rows the payment_methods table may hold.
MaxMethods == 3
\* Active payment methods a user may have: 20 in payment_methods/constants.py,
\* scaled down so that the table reaches the limit.
MAX_PAYMENT_METHODS_PER_USER == 2

(* ----------------------------- input sets ----------------------------- *)

TicksPerSecond == 2

Workers == 1..MaxWorkers

Emails == {"a@x.com", "A@x.com"}

Passwords == {"password123", "newpass123", "wrong"}

\* len(password): the schema layer's min_length reads nothing else.
PasswordLen(p) == CASE p = "password123" -> 11 [] p = "newpass123" -> 10 [] p = "wrong" -> 5

Salts == {"s1", "s2"}

None == "None"

(* --------------------------- configuration ---------------------------- *)

SECRET_KEY == "server-secret"

ALGORITHM == "HS256"

ACCESS_TOKEN_EXPIRE_MINUTES == 30

MIN_PASSWORD_LENGTH == 8

\* The lifetime login gives a token, in seconds and in ticks.
LifetimeSeconds == ACCESS_TOKEN_EXPIRE_MINUTES * 60

LifetimeTicks == LifetimeSeconds * TicksPerSecond

\* The instants at which the clock is read.
Instants == (0..MaxTicks) \cup ((LifetimeTicks - 1)..(LifetimeTicks + MaxTicks))

(* -------------------------- credential hasher ------------------------- *)

\* The digest pwdlib stores: a one-way function of the password and the salt.
Digest(password, salt) == <<"argon2", salt, password>>

get_password_hash(password, salt) == [salt |-> salt, digest |-> Digest(password, salt)]

verify_password(plain_password, hashed_password) ==
    hashed_password.digest = Digest(plain_password, hashed_password.salt)

(* ------------------------------ failures ------------------------------ *)

Msg(text, arg) == [text |-> text, arg |-> arg]

\* AppExceptionError(error_code, message, status_code)
AppExceptionError(error_code, message, status_code) ==
    [error_code |-> error_code, message |-> message, status_code |-> status_code]

NoError == AppExceptionError(None, Msg(None, None), 0)

\* The conflict reported with the status of a bad request.
UserAlreadyExists_BadRequest(email) ==
    AppExceptionError("USER_ALREADY_EXISTS", Msg("User with email {email} already exists", email), 400)

UserNotFoundExceptionError ==
    AppExceptionError("USER_NOT_FOUND", Msg("User not found", None), 404)

InactiveUserExceptionError ==
    AppExceptionError("INACTIVE_USER", Msg("User account is inactive", None), 403)

UserAlreadyExistsExceptionError(email) ==
    AppExceptionError("USER_ALREADY_EXISTS", Msg("User with email {email} already exists", email), 409)

InvalidCredentialsExceptionError ==
    AppExceptionError("INVALID_CREDENTIALS", Msg("Incorrect email or password", None), 401)

IncorrectPasswordExceptionError ==
    AppExceptionError("INCORRECT_PASSWORD", Msg("Current password is incorrect", None), 400)

TokenExpiredExceptionError ==
    AppExceptionError("TOKEN_EXPIRED", Msg("Token has expired", None), 401)

InvalidTokenExceptionError ==
    AppExceptionError("INVALID_TOKEN", Msg("Could not validate credentials", None), 401)

\* fastapi.HTTPException(status_code, detail, headers)
HTTPException(status_code, detail, headers) ==
    [status_code |-> status_code, detail |-> detail, headers |-> headers]

NoException == HTTPException(0, Msg(None, None), {})

BearerChallenge == {<<"WWW-Authenticate", "Bearer">>}

\* f"HTTP_{exc.status_code}"
HttpCode(status_code) ==
    CASE status_code = 400 -> "HTTP_400"
      [] status_code = 401 -> "HTTP_401"
      [] status_code = 403 -> "HTTP_403"
      [] status_code = 404 -> "HTTP_404"
      [] status_code = 409 -> "HTTP_409"
      [] OTHER -> "HTTP_???"

Response(status, code, message, headers) ==
    [status |-> status, code |-> code, message |-> message, headers |-> headers]

\* The handler main.py registers for HTTPException: the JSONResponse it builds
\* takes the status and the detail of the exception, and no headers.
http_exception_handler(exc) ==
    Response(exc.status_code, HttpCode(exc.status_code), exc.detail, {})

\* FastAPI's answer to a body the schema rejects.
\* generic_exception_handler: the answer to an exception no handler claims.
generic_exception_handler ==
    Response(500, "INTERNAL_SERVER_ERROR", Msg("An unexpected error occurred", None), {})

ValidationResponse == Response(422, "VALIDATION", Msg("Request validation failed", None), {})

Success(status) == Response(status, None, Msg(None, None), {})

(* ----------------------------- token codec ---------------------------- *)

\* datetime -> whole-second epoch value, as jwt.encode writes exp and iat.
EpochSeconds(ticks) == ticks \div TicksPerSecond

Mac(key, alg, payload) == [key |-> key, alg |-> alg, over |-> payload]

JwtEncode(payload, key, alg) ==
    [form |-> "jws", alg |-> alg, payload |-> payload, sig |-> Mac(key, alg, payload)]

\* The claims the codec sets itself.
CodecClaims == {"exp", "iat", "type"}

\* A codec in which the caller's values for exp, iat and type win.
ToEncode_CallerWins(data, ttlSeconds, t1, t2) ==
    LET expire == t1 + ttlSeconds * TicksPerSecond
    IN  [k \in (DOMAIN data) \cup CodecClaims |->
            IF k \in DOMAIN data THEN data[k]
            ELSE IF k = "exp" THEN EpochSeconds(expire)
            ELSE IF k = "iat" THEN EpochSeconds(t2)
            ELSE "access"]

\* to_encode = data.copy(); to_encode.update({exp, iat, type}), with the
\* datetimes as jwt.encode writes them; t1 and t2 are the two clock reads.
ToEncode(data, ttlSeconds, t1, t2) ==
    LET expire == t1 + ttlSeconds * TicksPerSecond
    IN  [k \in (DOMAIN data) \cup CodecClaims |->
            IF k = "exp" THEN EpochSeconds(expire)
            ELSE IF k = "iat" THEN EpochSeconds(t2)
            ELSE IF k = "type" THEN "access"
            ELSE data[k]]

\* The caller's dictionary once create_access_token has returned: the update
\* was made on a copy.
CallerData(data, ttlSeconds, t1, t2) == data

\* create_access_token(data, expires_delta)
create_access_token(data, ttlSeconds, t1, t2) ==
    JwtEncode(ToEncode(data, ttlSeconds, t1, t2), SECRET_KEY, ALGORITHM)

NoPayload == [sub |-> None, exp |-> 0, iat |-> 0, type |-> None]

\* jwt.decode that still accepts a token in the second its exp names.
JwtDecode_ExpInclusive(token, key, alg, t) ==
    IF token.form # "jws" THEN [error |-> "DecodeError", payload |-> NoPayload]
    ELSE IF token.alg # alg THEN [error |-> "InvalidAlgorithmError", payload |-> NoPayload]
    ELSE IF token.sig # Mac(key, alg, token.payload)
        THEN [error |-> "InvalidSignatureError", payload |-> NoPayload]
    ELSE IF token.payload.iat * TicksPerSecond > t
        THEN [error |-> "ImmatureSignatureError", payload |-> NoPayload]
    ELSE IF (token.payload.exp + 1) * TicksPerSecond <= t
        THEN [error |-> "ExpiredSignatureError", payload |-> NoPayload]
    ELSE [error |-> None, payload |-> token.payload]

\* jwt.decode called without algorithms=[alg]: the algorithm the token
\* declares is the one verified, and "none" asks for no signature.
JwtDecode_TrustsHeaderAlg(token, key, alg, t) ==
    IF token.form # "jws" THEN [error |-> "DecodeError", payload |-> NoPayload]
    ELSE IF token.alg # "none" /\ token.sig # Mac(key, token.alg, token.payload)
        THEN [error |-> "InvalidSignatureError", payload |-> NoPayload]
    ELSE IF token.payload.iat * TicksPerSecond > t
        THEN [error |-> "ImmatureSignatureError", payload |-> NoPayload]
    ELSE IF token.payload.exp * TicksPerSecond <= t
        THEN [error |-> "ExpiredSignatureError", payload |-> NoPayload]
    ELSE [error |-> None, payload |-> token.payload]

\* jwt.decode(token, key, algorithms=[alg]) at clock t: the payload, or the
\* PyJWT error (each a subclass of InvalidTokenError).
JwtDecode(token, key, alg, t) ==
    IF token.form # "jws" THEN [error |-> "DecodeError", payload |-> NoPayload]
    ELSE IF token.alg # alg THEN [error |-> "InvalidAlgorithmError", payload |-> NoPayload]
    ELSE IF token.sig # Mac(key, alg, token.payload)
        THEN [error |-> "InvalidSignatureError", payload |-> NoPayload]
    ELSE IF token.payload.iat * TicksPerSecond > t
        THEN [error |-> "ImmatureSignatureError", payload |-> NoPayload]
    ELSE IF token.payload.exp * TicksPerSecond <= t
        THEN [error |-> "ExpiredSignatureError", payload |-> NoPayload]
    ELSE [error |-> None, payload |-> token.payload]

\* verify_token backed by a table of sessions: only a token clients were last
\* handed is accepted.
verify_token_SessionTable(token, t) ==
    LET r == JwtDecode(token, SECRET_KEY, ALGORITHM, t)
    IN  IF r.error # None \/ token \notin held
        THEN [raised |-> InvalidTokenExceptionError, payload |-> NoPayload]
        ELSE [raised |-> NoError, payload |-> r.payload]

\* verify_token: every InvalidTokenError becomes InvalidTokenException.
verify_token(token, t) ==
    LET r == JwtDecode(token, SECRET_KEY, ALGORITHM, t)
    IN  IF r.error # None THEN [raised |-> InvalidTokenExceptionError, payload |-> NoPayload]
        ELSE [raised |-> NoError, payload |-> r.payload]

extract_email_from_token(token, t) ==
    LET r == verify_token(token, t)
    IN  IF r.raised # NoError THEN [raised |-> r.raised, email |-> None]
        ELSE IF "sub" \notin DOMAIN r.payload \/ r.payload.sub = None
            THEN [raised |-> InvalidTokenExceptionError, email |-> None]
        ELSE [raised |-> NoError, email |-> r.payload.sub]

(* ---------------------------- user directory -------------------------- *)

ProfileFields == {"first_name", "last_name", "preferred_currency", "locale"}

\* UserBase's defaults for the fields a registration leaves out.
DefaultProfile ==
    [first_name |-> None, last_name |-> None, preferred_currency |-> "USD", locale |-> "en-US"]

\* A registration that gives every profile field.
FullProfile ==
    [first_name |-> "Ann", last_name |-> "Lee", preferred_currency |-> "MXN", locale |-> "es-MX"]

Profiles == {DefaultProfile, FullProfile}

\* PUT /auth/me bodies: a profile field, and with it a key that UserUpdate
\* does not declare, carrying a hash the caller made.
Updates == {[first_name |-> "Bob", password_hash |-> get_password_hash("wrong", "s1")]}

\* A UserUpdate schema that keeps the keys it does not declare.
UserUpdate_AllowExtra(body) == body

\* UserUpdate(**body).dict(exclude_unset=True): the declared fields the body
\* sets; pydantic drops every other key.
UserUpdate(body) == [f \in (DOMAIN body) \cap ProfileFields |-> body[f]]

\* UserCreate: password has min_length=8.
UserCreateValid(user_create) == PasswordLen(user_create.password) >= MIN_PASSWORD_LENGTH

\* UserUpdatePassword without the min_length of new_password.
UserUpdatePasswordValid_NoMin(new_password) == TRUE

\* UserUpdatePassword: new_password has min_length=8.
UserUpdatePasswordValid(new_password) == PasswordLen(new_password) >= MIN_PASSWORD_LENGTH

UserCreate(email, password, profile) ==
    [email |-> email, password |-> password, profile |-> profile]

NoUserCreate == UserCreate(None, None, DefaultProfile)

\* models.User(...): id and active take the column defaults of BaseModel.
User(id, email, password_hash, profile) ==
    [id |-> id, email |-> email, password_hash |-> password_hash, active |-> TRUE,
     first_name |-> profile.first_name, last_name |-> profile.last_name,
     preferred_currency |-> profile.preferred_currency, locale |-> profile.locale]

\* db.query(User).filter(User.email == email).first(), as the set of rows found.
QueryByEmail(us, email) == {u \in us : u.email = email}

\* The IntegrityError the store raises for a second row with one email, and
\* the one it raises for a null in a column declared Mapped[str].
UniqueViolation == "IntegrityError: unique users.email"

NotNullViolation == "IntegrityError: not-null"

\* first_name and last_name are Mapped[str]: the columns are NOT NULL.
NotNullOk(row) == row.first_name # None /\ row.last_name # None

\* A users table whose email column has no unique index.
EmailUniqueOk_NoIndex(us, email) == TRUE

\* The unique index on users.email: whether a row with this email can be added.
EmailUniqueOk(us, email) == \A u \in us : u.email # email

\* An id generator that hands out one id again and again.
FreshId_Fixed(us) == Cardinality({}) + 1

\* uuid.uuid4(): an id no row has.
FreshId(us) == Cardinality(us) + 1

get_user_by_email(us, email) == {u \in us : u.email = email /\ u.active}

\* authenticate_user telling an unknown email from a wrong password.
authenticate_user_NotFound(us, email, password) ==
    LET user == {u \in us : u.email = email /\ u.active}
    IN  IF user = {}
        THEN [raised |-> AppExceptionError("USER_NOT_FOUND", Msg("User not found", None), 404),
              user |-> {}]
        ELSE IF \E u \in user : ~verify_password(password, u.password_hash)
            THEN [raised |-> InvalidCredentialsExceptionError, user |-> {}]
        ELSE [raised |-> NoError, user |-> user]

\* authenticate_user looking the email up among all rows, inactive ones too.
authenticate_user_AnyUser(us, email, password) ==
    LET user == {u \in us : u.email = email}
    IN  IF user = {} THEN [raised |-> InvalidCredentialsExceptionError, user |-> {}]
        ELSE IF \E u \in user : ~verify_password(password, u.password_hash)
            THEN [raised |-> InvalidCredentialsExceptionError, user |-> {}]
        ELSE [raised |-> NoError, user |-> user]

authenticate_user(us, email, password) ==
    LET user == {u \in us : u.email = email /\ u.active}
    IN  IF user = {} THEN [raised |-> InvalidCredentialsExceptionError, user |-> {}]
        ELSE IF \E u \in user : ~verify_password(password, u.password_hash)
            THEN [raised |-> InvalidCredentialsExceptionError, user |-> {}]
        ELSE [raised |-> NoError, user |-> user]

\* update_user writing every profile field, the ones the request left unset
\* as null.
update_user_AllFields(user, update_data) ==
    [f \in DOMAIN user |->
        IF f \in DOMAIN update_data THEN update_data[f]
        ELSE IF f \in ProfileFields THEN None
        ELSE user[f]]

\* for field, value in update_data.items(): setattr(user, field, value)
update_user(user, update_data) ==
    [f \in DOMAIN user |-> IF f \in DOMAIN update_data THEN update_data[f] ELSE user[f]]

\* update_password hashing the current password in place of the new one.
update_password_HashesCurrent(user, current_password, new_password, salt) ==
    IF ~verify_password(current_password, user.password_hash)
    THEN [raised |-> IncorrectPasswordExceptionError, user |-> user]
    ELSE [raised |-> NoError,
          user |-> [user EXCEPT !.password_hash = get_password_hash(current_password, salt)]]

\* update_password without the check of the current password.
update_password_NoVerify(user, current_password, new_password, salt) ==
    [raised |-> NoError,
     user |-> [user EXCEPT !.password_hash = get_password_hash(new_password, salt)]]

\* update_password: the row as committed, or the failure and the row untouched.
update_password(user, current_password, new_password, salt) ==
    IF ~verify_password(current_password, user.password_hash)
    THEN [raised |-> IncorrectPasswordExceptionError, user |-> user]
    ELSE [raised |-> NoError,
          user |-> [user EXCEPT !.password_hash = get_password_hash(new_password, salt)]]

(* -------------------------- authentication gate ----------------------- *)

MissingToken == [form |-> "missing", alg |-> None, payload |-> NoPayload,
                 sig |-> Mac(None, None, NoPayload)]

MalformedToken == [MissingToken EXCEPT !.form = "malformed"]

GateResult(exc, user, lookup) == [exc |-> exc, user |-> user, lookup |-> lookup]

\* oauth2_scheme, then get_current_user. lookup: whether the directory was read.
get_current_user(token, us, t) ==
    IF token.form = "missing"
    THEN GateResult(HTTPException(401, Msg("Not authenticated", None), BearerChallenge), {}, FALSE)
    ELSE LET r == extract_email_from_token(token, t)
         IN  IF r.raised # NoError
             THEN GateResult(HTTPException(401, Msg("Could not validate credentials", None),
                                           BearerChallenge), {}, FALSE)
             ELSE LET user == get_user_by_email(us, r.email)
                  IN  IF user = {}
                      THEN GateResult(HTTPException(401, Msg("User not found", None),
                                                    BearerChallenge), {}, TRUE)
                      ELSE GateResult(NoException, user, TRUE)

\* get_current_active_user, on what get_current_user resolved.
get_current_active_user(g) ==
    IF g.exc # NoException THEN g
    ELSE IF \E u \in g.user : ~u.active
        THEN GateResult(HTTPException(403, Msg("Inactive user", None), {}), {}, g.lookup)
    ELSE g

\* CurrentActiveUser: the dependency every protected endpoint declares.
Gate(token, us, t) == get_current_active_user(get_current_user(token, us, t))

(* --------------------------- credential service ----------------------- *)

\* create_user up to its existence check: whether a row with the email exists.
create_user_exists(us, user_create) == QueryByEmail(us, user_create.email) # {}

\* create_user from the hashing on: db.add and db.commit, the unique index
\* constraints deciding; any IntegrityError is rolled back and re-raised.
create_user_insert(us, user_create, salt) ==
    LET db_user == User(FreshId(us), user_create.email,
                        get_password_hash(user_create.password, salt), user_create.profile)
    IN  IF ~NotNullOk(db_user)
        THEN [raised |-> UserAlreadyExistsExceptionError(user_create.email),
              cause |-> NotNullViolation, users |-> us, user |-> {}]
        ELSE IF ~EmailUniqueOk(us, user_create.email)
        THEN [raised |-> UserAlreadyExistsExceptionError(user_create.email),
              cause |-> UniqueViolation, users |-> us, user |-> {}]
        ELSE [raised |-> NoError, cause |-> None, users |-> us \cup {db_user},
              user |-> {db_user}]

JWT_TOKEN_PREFIX == "bearer"

TokenBody(access_token, token_type, expires_in) ==
    [access_token |-> access_token, token_type |-> token_type, expires_in |-> expires_in]

NoBody == TokenBody(MissingToken, None, 0)

\* AuthService.create_access_token(user); t1, t2 are the codec's clock reads.
issue_session(email, t1, t2) ==
    TokenBody(create_access_token([sub |-> email], ACCESS_TOKEN_EXPIRE_MINUTES * 60, t1, t2),
              JWT_TOKEN_PREFIX, ACCESS_TOKEN_EXPIRE_MINUTES * 60)

(* ------------------------------- requests ----------------------------- *)

\* What a worker last answered: the response sent (http), the HTTPException
\* and the service failure behind it (err, and cause: the exception err was
\* raised from), the user and the token in the body, what the gate did (lookup:
\* it read the directory; handler: it let the endpoint run), and the request's
\* own email and password (for a protected request, the email of the user the
\* gate resolved and the current password the body gave).
Outcome(op, http, exc, err, cause, user, body, lookup, handler, req, pw) ==
    [op |-> op, http |-> http, exc |-> exc, err |-> err, cause |-> cause, user |-> user,
     body |-> body, lookup |-> lookup, handler |-> handler, req |-> req, pw |-> pw]

NoResp ==
    Outcome(None, Success(0), NoException, NoError, None, None, NoBody, FALSE, FALSE, None, None)

\* A route answering every service failure with one status of its own.
Reraise_BadRequest(e, headers) == HTTPException(400, e.message, headers)

\* except <AuthExceptionError> as e: raise HTTPException(e.status_code, e.message, headers)
Reraise(e, headers) == HTTPException(e.status_code, e.message, headers)

\* An endpoint's answer to a failure: the HTTPException raised and its response.
Failed(op, exc, err, cause, lookup, handler, req, pw) ==
    Outcome(op, http_exception_handler(exc), exc, err, cause, None, NoBody, lookup, handler,
            req, pw)

Succeeded(op, status, user, body, lookup, req, pw) ==
    Outcome(op, Success(status), NoException, NoError, None, user, body, lookup, TRUE, req, pw)

\* A body the schema rejects: the endpoint does not run.
Invalid(op, lookup, req, pw) ==
    Outcome(op, ValidationResponse, NoException, NoError, None, None, NoBody, lookup, FALSE,
            req, pw)

EmailOf(user) == IF user = {} THEN None ELSE (CHOOSE u \in user : TRUE).email

\* login(form_data): authenticate_user, then the session or the 401.
LoginOutcome(us, email, password, t1, t2) ==
    LET r == authenticate_user(us, email, password)
    IN  IF r.raised # NoError
        THEN Failed("login", Reraise(r.raised, BearerChallenge), r.raised, None, TRUE, TRUE,
                    email, password)
        ELSE Succeeded("login", 200, EmailOf(r.user), issue_session(EmailOf(r.user), t1, t2),
                       TRUE, email, password)

\* get_current_user_info behind the gate.
MeOutcome(token, us, t) ==
    LET g == Gate(token, us, t)
    IN  IF g.exc # NoException
        THEN Failed("me", g.exc, NoError, None, g.lookup, FALSE, None, None)
        ELSE Succeeded("me", 200, EmailOf(g.user), NoBody, g.lookup, EmailOf(g.user), None)

(* ------------------------- tokens a client can send ------------------- *)

OtherEmail(e) == IF e \in Emails THEN CHOOSE x \in Emails : x # e ELSE e

\* The payload rewritten to another subject, the signature left as it was.
Tampered(tok) == [tok EXCEPT !.payload.sub = OtherEmail(tok.payload.sub)]

\* The same payload signed with a key that is not the server's.
Resigned(tok) == JwtEncode(tok.payload, "attacker-key", tok.alg)

\* The same payload declaring no algorithm and carrying no signature.
Unsigned(tok) == [tok EXCEPT !.alg = "none", !.sig = Mac(None, "none", tok.payload)]

\* What the codec signs for a claim set without sub.
NoSubToken(t) ==
    create_access_token([type |-> "refresh"], ACCESS_TOKEN_EXPIRE_MINUTES * 60, t, t)

Presentable ==
    {MissingToken, MalformedToken, NoSubToken(now)} \cup held
        \cup {Tampered(tok) : tok \in held} \cup {Resigned(tok) : tok \in held}
        \cup {Unsigned(tok) : tok \in held}

(* -------------------------------- state ------------------------------- *)
\* users    the rows of the users table
\* pending  per worker, the create_user call that has passed its existence
\*          check and not yet committed (NoUserCreate: none)
\* held     the tokens login issued that clients still hold
\* now      the clock, in ticks
\* resp     per worker, its last answer (NoResp once the clock or the
\*          directory moved on without a request)
\* lastpw   per email, the password last set for its user (history, read by
\*          no operation)
\* methods  the rows of the payment_methods table

Init ==
    /\ users = {}
    /\ pending = [w \in Workers |-> NoUserCreate]
    /\ held = {}
    /\ now = 0
    /\ resp = [w \in Workers |-> NoResp]
    /\ lastpw = [e \in Emails |-> None]
    /\ methods = {}

Idle(w) == pending[w] = NoUserCreate

Answer(w, outcome) == resp' = [resp EXCEPT ![w] = outcome]

(* POST /auth/register, first half: schema validation and the existence check *)
RegisterBegin(w, user_create) ==
    LET email == user_create.email
        password == user_create.password
    IN  /\ Idle(w)
        /\ IF ~UserCreateValid(user_create)
           THEN /\ Answer(w, Invalid("register", FALSE, email, password))
                /\ UNCHANGED pending
           ELSE IF create_user_exists(users, user_create)
           THEN LET e == UserAlreadyExistsExceptionError(email)
                IN  /\ Answer(w, Failed("register", Reraise(e, {}), e, None, TRUE, TRUE,
                                        email, password))
                    /\ UNCHANGED pending
           ELSE /\ pending' = [pending EXCEPT ![w] = user_create]
                /\ Answer(w, NoResp)
        /\ UNCHANGED <<users, held, now, lastpw, methods>>

(* POST /auth/register, second half: hash, insert, commit *)
RegisterCommit(w, salt) ==
    LET user_create == pending[w]
        email == user_create.email
        password == user_create.password
        r == create_user_insert(users, user_create, salt)
    IN  /\ ~Idle(w)
        /\ pending' = [pending EXCEPT ![w] = NoUserCreate]
        /\ users' = r.users
        /\ IF r.raised = NoError
           THEN /\ Answer(w, Succeeded("register", 201, EmailOf(r.user), NoBody, TRUE,
                                       email, password))
                /\ lastpw' = [lastpw EXCEPT ![email] = password]
           ELSE /\ Answer(w, Failed("register", Reraise(r.raised, {}), r.raised, r.cause,
                                    TRUE, TRUE, email, password))
                /\ UNCHANGED lastpw
        /\ UNCHANGED <<held, now, methods>>

\* The tokens clients keep when they receive one more: none once MaxHeld are held.
Keep(tokens) == IF Cardinality(tokens) < MaxHeld THEN tokens ELSE {}

(* POST /auth/login; drift: the ticks between the codec's two clock reads *)
Login(w, email, password, drift) ==
    LET out == LoginOutcome(users, email, password, now, now + drift)
    IN  /\ Idle(w)
        /\ Answer(w, out)
        /\ IF out.err # NoError
           THEN /\ drift = 0
                /\ UNCHANGED <<held, now>>
           ELSE /\ now + drift \in Instants
                /\ now' = now + drift
                /\ held' = Keep(held) \cup {out.body.access_token}
        /\ UNCHANGED <<users, pending, lastpw, methods>>

(* GET /auth/me *)
Me(w, token) ==
    /\ Idle(w)
    /\ Answer(w, MeOutcome(token, users, now))
    /\ UNCHANGED <<users, pending, held, now, lastpw, methods>>

(* PUT /auth/me; body: the JSON object the request carries *)
UpdateMe(w, token, body) ==
    LET g == Gate(token, users, now)
        update_data == UserUpdate(body)
    IN  /\ Idle(w)
        /\ IF g.exc # NoException
           THEN /\ Answer(w, Failed("update_user", g.exc, NoError, None, g.lookup, FALSE,
                                    None, None))
                /\ UNCHANGED users
           ELSE /\ users' = (users \ g.user) \cup {update_user(u, update_data) : u \in g.user}
                /\ Answer(w, Succeeded("update_user", 200, EmailOf(g.user), NoBody, g.lookup,
                                       EmailOf(g.user), None))
        /\ UNCHANGED <<pending, held, now, lastpw, methods>>

(* PUT /auth/me/password *)
UpdatePassword(w, token, current_password, new_password, salt) ==
    LET g == Gate(token, users, now)
        email == EmailOf(g.user)
    IN  /\ Idle(w)
        /\ IF g.exc # NoException
           THEN /\ Answer(w, Failed("update_password", g.exc, NoError, None, g.lookup, FALSE,
                                    None, current_password))
                /\ UNCHANGED <<users, lastpw>>
           ELSE IF ~UserUpdatePasswordValid(new_password)
           THEN /\ Answer(w, Invalid("update_password", g.lookup, email, current_password))
                /\ UNCHANGED <<users, lastpw>>
           ELSE LET user == CHOOSE u \in g.user : TRUE
                    r == update_password(user, current_password, new_password, salt)
                IN  /\ users' = (users \ {user}) \cup {r.user}
                    /\ IF r.raised # NoError
                       THEN /\ Answer(w, Failed("update_password", Reraise(r.raised, {}),
                                                r.raised, None, g.lookup, TRUE,
                                                email, current_password))
                            /\ UNCHANGED lastpw
                       ELSE /\ Answer(w, Succeeded("update_password", 200, None, NoBody,
                                                   g.lookup, email, current_password))
                            /\ lastpw' = [lastpw EXCEPT ![email] = new_password]
        /\ UNCHANGED <<pending, held, now, methods>>

(* Deactivation: the active flag of a row set to false in the store. *)
Deactivate(email) ==
    /\ \E u \in users : u.email = email /\ u.active
    /\ users' = {IF u.email = email THEN [u EXCEPT !.active = FALSE] ELSE u : u \in users}
    /\ resp' = [w \in Workers |-> NoResp]
    /\ UNCHANGED <<pending, held, now, lastpw, methods>>

\* Time passes: the clock moves on to a later instant.
Tick(t) ==
    /\ t > now
    /\ now' = t
    /\ resp' = [w \in Workers |-> NoResp]
    /\ UNCHANGED <<users, pending, held, lastpw, methods>>

(* ---------------------------- payment methods ------------------------ *)

\* Names as requests carry them, one with surrounding blanks.
RawNames == {"Visa", " Visa", "Cash"}

\* validate_name: v.strip()
Strip(name) == IF name = " Visa" THEN "Visa" ELSE name

\* PaymentMethodCreate, validated.
PaymentMethodCreate(name) ==
    [name |-> Strip(name), method_type |-> "credit", default_currency |-> "USD",
     description |-> None]

PaymentMethodFields == {"name", "description", "active"}

\* PUT bodies: a rename, and the active flag set to true.
PaymentMethodUpdates == {[name |-> " Visa"], [active |-> TRUE]}

\* PaymentMethodUpdate(**body).model_dump(exclude_unset=True), validated.
PaymentMethodUpdate(body) ==
    [f \in (DOMAIN body) \cap PaymentMethodFields |->
        IF f = "name" THEN Strip(body[f]) ELSE body[f]]

\* models.PaymentMethod(...): id and active take the column defaults.
PaymentMethod(id, user_id, data) ==
    [id |-> id, user_id |-> user_id, name |-> data.name, method_type |-> data.method_type,
     default_currency |-> data.default_currency, description |-> data.description,
     active |-> TRUE]

PaymentMethodNotFoundExceptionError(payment_method_id) ==
    AppExceptionError("PAYMENT_METHOD_NOT_FOUND",
                      Msg("Payment method not found", payment_method_id), 404)

PaymentMethodNameExistsExceptionError(name) ==
    AppExceptionError("PAYMENT_METHOD_NAME_EXISTS",
                      Msg("Payment method with name already exists", name), 409)

PaymentMethodInUseExceptionError(payment_method_id) ==
    AppExceptionError("PAYMENT_METHOD_IN_USE",
                      Msg("Cannot delete payment method that is in use", payment_method_id),
                      409)

\* app_exception_handler: the answer to an AppExceptionError no route caught.
app_exception_handler(exc) == Response(exc.status_code, exc.error_code, exc.message, {})

\* get_payment_methods(db, user_id, active); active: "any" for no filter.
get_payment_methods(ms, user_id, active) ==
    {m \in ms : m.user_id = user_id /\ (active = "any" \/ m.active = (active = "true"))}

\* A lookup by id that does not look at the owner.
get_payment_method_by_id_AnyOwner(ms, payment_method_id, user_id) ==
    {m \in ms : m.id = payment_method_id}

get_payment_method_by_id(ms, payment_method_id, user_id) ==
    {m \in ms : m.id = payment_method_id /\ m.user_id = user_id}

\* create_payment_method: the limit, the name check, the insert.
create_payment_method(ms, payment_method_data, user_id) ==
    LET existing_count == Cardinality({m \in ms : m.user_id = user_id /\ m.active})
        existing_method == {m \in ms : /\ m.user_id = user_id
                                       /\ m.name = payment_method_data.name
                                       /\ m.active}
        payment_method == PaymentMethod(FreshId(ms), user_id, payment_method_data)
    IN  IF existing_count >= MAX_PAYMENT_METHODS_PER_USER
        THEN [raised |-> PaymentMethodInUseExceptionError("Maximum payment methods allowed"),
              methods |-> ms, payment_method |-> {}]
        ELSE IF existing_method # {}
        THEN [raised |-> PaymentMethodNameExistsExceptionError(payment_method_data.name),
              methods |-> ms, payment_method |-> {}]
        ELSE [raised |-> NoError, methods |-> ms \cup {payment_method},
              payment_method |-> {payment_method}]

\* update_payment_method: the name check when the name changes, then setattr
\* of every field the request set.
update_payment_method(ms, payment_method, update_data) ==
    LET renamed == /\ "name" \in DOMAIN update_data
                   /\ update_data.name # payment_method.name
        existing_method == {m \in ms : /\ m.user_id = payment_method.user_id
                                       /\ renamed
                                       /\ m.name = update_data.name
                                       /\ m.active
                                       /\ m.id # payment_method.id}
        updated == [f \in DOMAIN payment_method |->
                       IF f \in DOMAIN update_data THEN update_data[f]
                       ELSE payment_method[f]]
    IN  IF renamed /\ existing_method # {}
        THEN [raised |-> PaymentMethodNameExistsExceptionError(update_data.name),
              methods |-> ms, payment_method |-> {}]
        ELSE [raised |-> NoError, methods |-> (ms \ {payment_method}) \cup {updated},
              payment_method |-> {updated}]

\* A delete that removes the row.
delete_payment_method_Hard(ms, payment_method) == ms \ {payment_method}

\* delete_payment_method: payment_method.active = False
delete_payment_method(ms, payment_method) ==
    (ms \ {payment_method}) \cup {[payment_method EXCEPT !.active = FALSE]}

\* What a payment-method request is answered with: the id it named and the
\* rows in the response.
PaymentMethodBody(payment_method_id, returned) ==
    [payment_method_id |-> payment_method_id, returned |-> returned]

\* The id of the user the gate resolved.
IdOf(user) == (CHOOSE u \in user : TRUE).id

\* The gate refused the request.
PaymentGateRefused(w, op, g) ==
    Answer(w, Outcome(op, http_exception_handler(g.exc), g.exc, NoError, None, None,
                      PaymentMethodBody(None, {}), g.lookup, FALSE, None, None))

\* An AppExceptionError no route catches, answered by app_exception_handler.
PaymentUncaught(w, op, err, g, payment_method_id, handler) ==
    Answer(w, Outcome(op, app_exception_handler(err), NoException, err, None, None,
                      PaymentMethodBody(payment_method_id, {}), TRUE, handler,
                      EmailOf(g.user), None))

\* except PaymentMethodNameExistsException as e: raise HTTPException(...)
PaymentReraised(w, op, err, g, payment_method_id) ==
    Answer(w, Outcome(op, http_exception_handler(Reraise(err, {})), Reraise(err, {}), err,
                      None, None, PaymentMethodBody(payment_method_id, {}), TRUE, TRUE,
                      EmailOf(g.user), None))

PaymentAnswered(w, op, status, g, payment_method_id, returned) ==
    Answer(w, Outcome(op, Success(status), NoException, NoError, None, None,
                      PaymentMethodBody(payment_method_id, returned), TRUE, TRUE,
                      EmailOf(g.user), None))

\* PaymentMethodDep: the row with this id that the current user owns.
PaymentMethodDep(ms, payment_method_id, g) ==
    get_payment_method_by_id(ms, payment_method_id, IdOf(g.user))

(* GET /payment-methods/ *)
GetPaymentMethods(w, token, active) ==
    LET g == Gate(token, users, now)
    IN  /\ Idle(w)
        /\ IF g.exc # NoException
           THEN PaymentGateRefused(w, "get_payment_methods", g)
           ELSE PaymentAnswered(w, "get_payment_methods", 200, g, None,
                                get_payment_methods(methods, IdOf(g.user), active))
        /\ UNCHANGED <<users, pending, held, now, lastpw, methods>>

(* POST /payment-methods/ *)
CreatePaymentMethod(w, token, payment_method_data) ==
    LET g == Gate(token, users, now)
    IN  /\ Idle(w)
        /\ Cardinality(methods) < MaxMethods
        /\ IF g.exc # NoException
           THEN /\ PaymentGateRefused(w, "create_payment_method", g)
                /\ UNCHANGED methods
           ELSE LET r == create_payment_method(methods, payment_method_data, IdOf(g.user))
                IN  /\ methods' = r.methods
                    /\ IF r.raised = NoError
                       THEN PaymentAnswered(w, "create_payment_method", 201, g,
                                            IdOf(r.payment_method), r.payment_method)
                       ELSE IF r.raised.error_code = "PAYMENT_METHOD_NAME_EXISTS"
                       THEN PaymentReraised(w, "create_payment_method", r.raised, g, None)
                       ELSE PaymentUncaught(w, "create_payment_method", r.raised, g, None,
                                            TRUE)
        /\ UNCHANGED <<users, pending, held, now, lastpw>>

(* GET /payment-methods/{payment_method_id} *)
GetPaymentMethod(w, token, payment_method_id) ==
    LET g == Gate(token, users, now)
    IN  /\ Idle(w)
        /\ IF g.exc # NoException
           THEN PaymentGateRefused(w, "get_payment_method", g)
           ELSE LET payment_method == PaymentMethodDep(methods, payment_method_id, g)
                IN  IF payment_method = {}
                    THEN PaymentUncaught(w, "get_payment_method",
                                         PaymentMethodNotFoundExceptionError(payment_method_id),
                                         g, payment_method_id, FALSE)
                    ELSE PaymentAnswered(w, "get_payment_method", 200, g, payment_method_id,
                                         payment_method)
        /\ UNCHANGED <<users, pending, held, now, lastpw, methods>>

(* PUT /payment-methods/{payment_method_id} *)
UpdatePaymentMethod(w, token, payment_method_id, body) ==
    LET g == Gate(token, users, now)
    IN  /\ Idle(w)
        /\ IF g.exc # NoException
           THEN /\ PaymentGateRefused(w, "update_payment_method", g)
                /\ UNCHANGED methods
           ELSE LET payment_method == PaymentMethodDep(methods, payment_method_id, g)
                IN  IF payment_method = {}
                    THEN /\ PaymentUncaught(w, "update_payment_method",
                                            PaymentMethodNotFoundExceptionError(
                                                payment_method_id),
                                            g, payment_method_id, FALSE)
                         /\ UNCHANGED methods
                    ELSE LET r == update_payment_method(methods,
                                                        CHOOSE m \in payment_method : TRUE,
                                                        PaymentMethodUpdate(body))
                         IN  /\ methods' = r.methods
                             /\ IF r.raised = NoError
                                THEN PaymentAnswered(w, "update_payment_method", 200, g,
                                                     payment_method_id, r.payment_method)
                                ELSE PaymentReraised(w, "update_payment_method", r.raised, g,
                                                     payment_method_id)
        /\ UNCHANGED <<users, pending, held, now, lastpw>>

(* DELETE /payment-methods/{payment_method_id} *)
DeletePaymentMethod(w, token, payment_method_id) ==
    LET g == Gate(token, users, now)
    IN  /\ Idle(w)
        /\ IF g.exc # NoException
           THEN /\ PaymentGateRefused(w, "delete_payment_method", g)
                /\ UNCHANGED methods
           ELSE LET payment_method == PaymentMethodDep(methods, payment_method_id, g)
                IN  IF payment_method = {}
                    THEN /\ PaymentUncaught(w, "delete_payment_method",
                                            PaymentMethodNotFoundExceptionError(
                                                payment_method_id),
                                            g, payment_method_id, FALSE)
                         /\ UNCHANGED methods
                    ELSE /\ methods' = delete_payment_method(methods,
                                                             CHOOSE m \in payment_method : TRUE)
                         /\ PaymentAnswered(w, "delete_payment_method", 204, g,
                                            payment_method_id, {})
        /\ UNCHANGED <<users, pending, held, now, lastpw>>

\* The ids a request may name; while the table is not full, the last ones are
\* ids no row has.
MethodIds == 1..MaxMethods

UserCreates(emails, passwords, profiles) ==
    {UserCreate(e, p, pr) : e \in emails, p \in passwords, pr \in profiles}

\* The credential service at one instant, one request at a time: a single
\* worker serves every request and the clock stands still.
Next ==
    \/ \E uc \in UserCreates(Emails, Passwords, {FullProfile}) : RegisterBegin(1, uc)
    \/ RegisterCommit(1, "s1")
    \/ \E e \in Emails, p \in Passwords : Login(1, e, p, 0)
    \/ \E tok \in held \cup {MissingToken} : Me(1, tok)
    \/ \E tok \in held \cup {MissingToken}, body \in Updates : UpdateMe(1, tok, body)
    \/ \E tok \in held \cup {MissingToken}, cur \in Passwords, new \in Passwords :
          UpdatePassword(1, tok, cur, new, "s2")
    \/ \E e \in Emails : Deactivate(e)

Spec == Init /\ [][Next]_vars

\* The gate over time: tokens are issued, age, are forged and presented while
\* users register with one password and are deactivated.
NextGate ==
    \/ \E uc \in UserCreates(Emails, {"password123"}, Profiles) : RegisterBegin(1, uc)
    \/ RegisterCommit(1, "s1")
    \/ \E e \in Emails, p \in {"password123", "wrong"}, d \in 0..MaxDrift : Login(1, e, p, d)
    \/ \E tok \in Presentable : Me(1, tok)
    \/ \E e \in Emails : Deactivate(e)
    \/ \E t \in Instants : Tick(t)

SpecGate == Init /\ [][NextGate]_vars

\* Concurrent registrations: every worker may be inside create_user.
NextRace ==
    \/ \E w \in Workers, uc \in UserCreates(Emails, Passwords, {FullProfile}) :
          RegisterBegin(w, uc)
    \/ \E w \in Workers, salt \in Salts : RegisterCommit(w, salt)

SpecRace == Init /\ [][NextRace]_vars

\* Payment methods: two users register, log in and manage their methods, one
\* request at a time.
NextPay ==
    \/ \E uc \in UserCreates(Emails, {"password123"}, {FullProfile}) : RegisterBegin(1, uc)
    \/ RegisterCommit(1, "s1")
    \/ \E e \in Emails : Login(1, e, "password123", 0)
    \/ \E tok \in held \cup {MissingToken}, active \in {"any", "true", "false"} :
          GetPaymentMethods(1, tok, active)
    \/ \E tok \in held \cup {MissingToken}, name \in RawNames :
          CreatePaymentMethod(1, tok, PaymentMethodCreate(name))
    \/ \E tok \in held \cup {MissingToken}, id \in MethodIds : GetPaymentMethod(1, tok, id)
    \/ \E tok \in held \cup {MissingToken}, id \in MethodIds, body \in PaymentMethodUpdates :
          UpdatePaymentMethod(1, tok, id, body)
    \/ \E tok \in held \cup {MissingToken}, id \in MethodIds : DeletePaymentMethod(1, tok, id)

SpecPay == Init /\ [][NextPay]_vars

(* ================================ claims ============================== *)

\* A token the server signed with the configured algorithm.
ServerSigned(tok) ==
    /\ tok.form = "jws"
    /\ tok.alg = ALGORITHM
    /\ tok.sig = Mac(SECRET_KEY, ALGORITHM, tok.payload)

\* A server-signed token whose exp has passed at instant t.
ExpiredAt(tok, t) == ServerSigned(tok) /\ tok.payload.exp * TicksPerSecond <= t

ActiveUser(e) == \E u \in users : u.email = e /\ u.active

InactiveUser(e) == \E u \in users : u.email = e /\ ~u.active

\* An email with its letters in lower case.
Lower(email) == IF email = "A@x.com" THEN "a@x.com" ELSE email

\* Dictionaries a caller may hand to create_access_token.
TokenData ==
    {[sub |-> "a@x.com"],
     [sub |-> "a@x.com", role |-> "admin"],
     [sub |-> "a@x.com", exp |-> 0, iat |-> 99, type |-> "refresh"]}

\* The status each failure of the auth taxonomy is documented to carry.
StatusOf(error_code) ==
    CASE error_code \in {"INVALID_TOKEN", "TOKEN_EXPIRED", "INVALID_CREDENTIALS"} -> 401
      [] error_code = "INACTIVE_USER" -> 403
      [] error_code = "USER_NOT_FOUND" -> 404
      [] error_code = "USER_ALREADY_EXISTS" -> 409
      [] error_code = "INCORRECT_PASSWORD" -> 400

(* C1: a protected request with a correctly signed, unexpired token whose
   subject names a user record with active = false is answered 403, not 401. *)
C1_InactiveUserForbidden ==
    \A tok \in held :
        (/\ ServerSigned(tok)
         /\ ~ExpiredAt(tok, now)
         /\ \E u \in users : u.email = tok.payload.sub /\ ~u.active)
        => MeOutcome(tok, users, now).http.status = 403

(* C2: a protected request whose token is missing, malformed, wrongly signed,
   expired or without sub is answered 401 with the WWW-Authenticate: Bearer
   header, and neither the directory lookup nor the handler runs. *)
C2_InvalidTokenChallenged ==
    \A tok \in Presentable :
        (tok.form = "missing" \/ extract_email_from_token(tok, now).raised # NoError)
        => LET o == MeOutcome(tok, users, now)
           IN  /\ o.http.status = 401
               /\ <<"WWW-Authenticate", "Bearer">> \in o.http.headers
               /\ ~o.lookup
               /\ ~o.handler

(* C3: of the registrations racing for one unused email exactly one creates
   the user; the one that meets the unique index at insert time is answered
   UserAlreadyExists (409), and the directory holds one record of the email. *)
C3_RaceOneWinner ==
    /\ \A e \in Emails : Cardinality(QueryByEmail(users, e)) <= 1
    /\ \A w \in Workers :
          resp[w].cause = UniqueViolation
          => /\ resp[w].err.error_code = "USER_ALREADY_EXISTS"
             /\ resp[w].http.status = 409
             /\ Cardinality(QueryByEmail(users, resp[w].req)) = 1
    /\ \A w1, w2 \in Workers :
          (/\ w1 # w2
           /\ resp[w1].op = "register" /\ resp[w2].op = "register"
           /\ resp[w1].req = resp[w2].req)
          => ~(resp[w1].http.status = 201 /\ resp[w2].http.status = 201)

\* Two workers raced for one email: one created the user, the other met the index.
C3_RaceHappened ==
    \E w1, w2 \in Workers :
        /\ resp[w1].op = "register" /\ resp[w1].http.status = 201
        /\ resp[w2].op = "register" /\ resp[w2].cause = UniqueViolation
        /\ resp[w2].http.status = 409
        /\ resp[w1].req = resp[w2].req
        /\ Cardinality(QueryByEmail(users, resp[w1].req)) = 1

(* C4: a register request (one the schema accepts) naming an email that a
   record, active or not, already has is answered UserAlreadyExists (409) and
   changes no record. *)
C4_DuplicateEmailRejected ==
    [][(/\ resp'[1].op = "register"
        /\ resp'[1].http.status # 422
        /\ QueryByEmail(users, resp'[1].req) # {})
       => (/\ resp'[1].http.status = 409
           /\ resp'[1].err.error_code = "USER_ALREADY_EXISTS"
           /\ users' = users)]_vars

\* A registration was refused for the email of an inactive record whose
\* profile differs from the one the request carried.
C4_InactiveDuplicateRefused ==
    /\ resp[1].op = "register"
    /\ resp[1].http.status = 409
    /\ \E u \in users : u.email = resp[1].req /\ ~u.active /\ u.first_name = "Bob"

(* C5: login fails in the same way (error kind, code, message, status,
   response) when no active user has the email and when the password of an
   active user does not verify. *)
C5_SameFailure ==
    /\ \A e1, e2 \in Emails, p1, p2 \in Passwords :
          LET a == LoginOutcome(users, e1, p1, now, now)
              b == LoginOutcome(users, e2, p2, now, now)
          IN  (~ActiveUser(e1) /\ ActiveUser(e2) /\ b.err # NoError)
              => /\ a.err = b.err
                 /\ a.exc = b.exc
                 /\ a.http = b.http
                 /\ a.err.error_code = "INVALID_CREDENTIALS"
                 /\ a.http.status = 401
    /\ (resp[1].op = "login" /\ resp[1].http.status # 200)
       => /\ resp[1].err = InvalidCredentialsExceptionError
          /\ resp[1].http.status = 401
          /\ resp[1].http.message = Msg("Incorrect email or password", None)

\* A login failed on the password of an active user while another email is unknown.
C5_WrongPasswordSeen ==
    /\ resp[1].op = "login"
    /\ resp[1].http.status = 401
    /\ ActiveUser(resp[1].req)
    /\ \E e \in Emails : QueryByEmail(users, e) = {}

(* C6: authenticate(e, p) succeeds, returning the user with email e, exactly
   when an active user has email e and p is the password last set for it; after
   a successful change from old to new (old # new), old fails and new succeeds. *)
C6_AuthenticateIffLastPassword ==
    /\ \A e \in Emails, p \in Passwords :
          LET r == authenticate_user(users, e, p)
          IN  /\ (r.raised = NoError) <=> (ActiveUser(e) /\ lastpw[e] = p)
              /\ r.raised = NoError => (r.user # {} /\ \A u \in r.user : u.email = e)
              /\ r.raised # NoError => r.raised.error_code = "INVALID_CREDENTIALS"
    /\ resp[1].op = "login"
       => /\ (resp[1].http.status = 200)
                <=> (ActiveUser(resp[1].req) /\ lastpw[resp[1].req] = resp[1].pw)
          /\ resp[1].http.status = 200 => resp[1].user = resp[1].req
    /\ (/\ resp[1].op = "update_password"
        /\ resp[1].http.status = 200
        /\ resp[1].pw # lastpw[resp[1].req])
       => /\ authenticate_user(users, resp[1].req, resp[1].pw).raised.error_code
                = "INVALID_CREDENTIALS"
          /\ authenticate_user(users, resp[1].req, lastpw[resp[1].req]).raised = NoError

\* A password was changed from one value to another.
C6_PasswordChanged ==
    /\ resp[1].op = "update_password"
    /\ resp[1].http.status = 200
    /\ resp[1].pw # lastpw[resp[1].req]

(* C7: a change-password request whose current_password does not verify
   against the stored hash fails with IncorrectPassword (400) and changes no
   field of any record: the previous password still authenticates. *)
C7_WrongCurrentPasswordChangesNothing ==
    [][(/\ resp'[1].op = "update_password"
        /\ resp'[1].req # None
        /\ resp'[1].http.status # 422
        /\ \E u \in users : /\ u.email = resp'[1].req
                            /\ ~verify_password(resp'[1].pw, u.password_hash))
       => (/\ resp'[1].err.error_code = "INCORRECT_PASSWORD"
           /\ resp'[1].http.status = 400
           /\ users' = users
           /\ authenticate_user(users', resp'[1].req, lastpw[resp'[1].req]).raised = NoError)]_vars

\* A change of password was refused for its current password.
C7_ChangeRefused ==
    /\ resp[1].op = "update_password"
    /\ resp[1].err.error_code = "INCORRECT_PASSWORD"
    /\ resp[1].http.status = 400
    /\ resp[1].pw # lastpw[resp[1].req]

(* C8: verify_token on a token whose signature is valid and whose exp has
   passed fails with TokenExpired, a failure other than the InvalidToken a
   tampered or malformed token gives. *)
C8_ExpiredRaisesTokenExpired ==
    \A tok \in held :
        ExpiredAt(tok, now)
        => /\ verify_token(tok, now).raised = TokenExpiredExceptionError
           /\ verify_token(tok, now).raised # verify_token(Tampered(tok), now).raised
           /\ verify_token(tok, now).raised # verify_token(MalformedToken, now).raised

(* C9: a protected request with a correctly signed, expired token is answered
   401 with a code other than the one a malformed or wrongly signed token gets. *)
C9_ExpiredHasOwnCode ==
    \A tok \in held :
        ExpiredAt(tok, now)
        => LET o == MeOutcome(tok, users, now)
           IN  /\ o.http.status = 401
               /\ o.http.code # MeOutcome(MalformedToken, users, now).http.code
               /\ o.http.code # MeOutcome(Resigned(tok), users, now).http.code

(* C10: a token decoded right after it was issued has sub equal to the
   subject and exp - iat equal to the lifetime in seconds, whatever the clock
   showed at each of the reads made while issuing it. *)
C10_IssueDecodeRoundTrip ==
    (resp[1].op = "login" /\ resp[1].http.status = 200)
    => LET d == verify_token(resp[1].body.access_token, now)
       IN  /\ d.raised = NoError
           /\ d.payload.sub = resp[1].req
           /\ d.payload.exp - d.payload.iat = ACCESS_TOKEN_EXPIRE_MINUTES * 60

(* C11: a token the server signed is accepted by verify_token at every
   instant before the second its exp names and refused at that second and at
   every later instant; a token once refused for expiry is refused at every
   later reading of the clock. *)
C11_ExpiryBoundary ==
    /\ [](\A tok \in held :
            /\ ServerSigned(tok)
            /\ (verify_token(tok, now).raised = NoError)
                  <=> (now < tok.payload.exp * TicksPerSecond)
            /\ (verify_token(tok, now).raised = InvalidTokenExceptionError)
                  <=> (now >= tok.payload.exp * TicksPerSecond))
    /\ [][\A tok \in held :
            ExpiredAt(tok, now)
            => verify_token(tok, now').raised = InvalidTokenExceptionError]_vars

\* The clock shows exactly the second a held token's exp names, its user is
\* active, and the request that presented it was refused.
C11_ExpirySecondRejected ==
    \E tok \in held :
        /\ now = tok.payload.exp * TicksPerSecond
        /\ ActiveUser(tok.payload.sub)
        /\ MeOutcome(tok, users, now).http.status = 401
        /\ resp[1].op = "me"
        /\ resp[1].http = MeOutcome(tok, users, now).http

(* C12: verify_token returns claims only for a token signed with the server
   secret under the configured algorithm; a token with an altered payload, one
   signed with another key and one declaring "none" fail with InvalidToken, and
   the gate lets a request through only for a token that login issued. *)
C12_OnlyServerSignedAccepted ==
    /\ \A tok \in Presentable :
          /\ verify_token(tok, now).raised = NoError => ServerSigned(tok)
          /\ ~ServerSigned(tok) => verify_token(tok, now).raised = InvalidTokenExceptionError
          /\ Gate(tok, users, now).exc = NoException => tok \in held
    /\ \A tok \in held :
          /\ verify_token(Tampered(tok), now).raised = InvalidTokenExceptionError
          /\ verify_token(Resigned(tok), now).raised = InvalidTokenExceptionError
          /\ verify_token(Unsigned(tok), now).raised = InvalidTokenExceptionError
    /\ (resp[1].op = "me" /\ resp[1].http.status = 200)
       => \E tok \in held : tok.payload.sub = resp[1].user /\ ServerSigned(tok)

\* A client holds a token that is still good for an active user, and a request
\* was refused for the token it presented: none of the forgeries got through.
C12_ForgeryRefused ==
    \E tok \in held :
        /\ Gate(tok, users, now).exc = NoException
        /\ {Tampered(tok), Resigned(tok), Unsigned(tok)} \subseteq Presentable
        /\ Tampered(tok) # tok
        /\ resp[1].op = "me"
        /\ resp[1].http.status = 401
        /\ resp[1].http.message = Msg("Could not validate credentials", None)

(* C13: the gate answers a valid token whose subject the directory lookup
   does not find with the same response (status, headers, code and message) as
   it answers an invalid token. *)
C13_AbsentUserSameShape ==
    \A tok \in held :
        (/\ extract_email_from_token(tok, now).raised = NoError
         /\ get_user_by_email(users, tok.payload.sub) = {})
        => /\ MeOutcome(tok, users, now).http = MeOutcome(MalformedToken, users, now).http
           /\ MeOutcome(tok, users, now).http = MeOutcome(Resigned(tok), users, now).http

(* C14: authenticate fails with InvalidCredentials for every user record
   with active = false, the correct password included, and login puts a token
   in clients' hands only for a user that is active when it runs. *)
C14_InactiveNeverAuthenticates ==
    /\ [](/\ \A e \in Emails, p \in Passwords :
               InactiveUser(e)
               => /\ authenticate_user(users, e, p).raised = InvalidCredentialsExceptionError
                  /\ LoginOutcome(users, e, p, now, now).body = NoBody
                  /\ LoginOutcome(users, e, p, now, now).http.status = 401
          /\ (resp[1].op = "login" /\ resp[1].http.status = 200)
             => /\ ActiveUser(resp[1].req)
                /\ resp[1].body.access_token.payload.sub = resp[1].req
          /\ (resp[1].op = "login" /\ InactiveUser(resp[1].req))
             => /\ resp[1].err = InvalidCredentialsExceptionError
                /\ resp[1].body = NoBody)
    /\ [][\A tok \in held' \ held :
            \E u \in users : u.email = tok.payload.sub /\ u.active]_vars

\* A login with the password last set for a deactivated user was refused.
C14_InactiveLoginRefused ==
    /\ resp[1].op = "login"
    /\ resp[1].http.status = 401
    /\ InactiveUser(resp[1].req)
    /\ resp[1].pw = lastpw[resp[1].req]

(* C15: the session login returns has token_type "bearer", expires_in equal
   to the configured minutes times 60, and a token whose sub is the user's
   email and whose exp is expires_in seconds after its issue time iat. *)
C15_SessionMatchesLifetime ==
    (resp[1].op = "login" /\ resp[1].http.status = 200)
    => LET body == resp[1].body
           claims == body.access_token.payload
       IN  /\ body.token_type = "bearer"
           /\ body.expires_in = ACCESS_TOKEN_EXPIRE_MINUTES * 60
           /\ claims.sub = resp[1].user
           /\ claims.exp - claims.iat = body.expires_in

(* C16: in every reachable state each record's password_hash is what
   get_password_hash gives for the password last set for that user, never the
   raw password or a value the caller supplied; an update of the profile,
   whatever keys its body carries, leaves every password_hash as it was. *)
C16_HashOnlyFromHasher ==
    /\ [](\A u \in users :
            /\ lastpw[u.email] # None
            /\ \E salt \in Salts : u.password_hash = get_password_hash(lastpw[u.email], salt)
            /\ verify_password(lastpw[u.email], u.password_hash))
    /\ [][resp'[1].op = "update_user"
          => \A v \in users' :
                \E u \in users : u.id = v.id /\ u.password_hash = v.password_hash]_vars

\* A profile update whose body also carried a password_hash key was applied
\* to a user whose password had been changed before.
C16_UpdateCarriedHashKey ==
    /\ resp[1].op = "update_user"
    /\ resp[1].http.status = 200
    /\ \E u \in users :
          /\ u.email = resp[1].req
          /\ u.first_name = "Bob"
          /\ lastpw[u.email] = "newpass123"
          /\ u.password_hash = get_password_hash("newpass123", "s2")

(* C17: no two user records have emails that are equal when letter case is
   ignored. *)
C17_EmailUniqueIgnoringCase ==
    \A u, v \in users : Lower(u.email) = Lower(v.email) => u = v

(* C18: each failure of the auth taxonomy carries one fixed status (401 for
   InvalidToken, TokenExpired and InvalidCredentials, 403 for InactiveUser, 404
   for UserNotFound, 409 for UserAlreadyExists, 400 for IncorrectPassword), and
   on every endpoint and path the client receives that status and the one code
   derived from it. *)
C18_FixedStatusAndCode ==
    /\ \A err \in {InvalidTokenExceptionError, TokenExpiredExceptionError,
                    InvalidCredentialsExceptionError, InactiveUserExceptionError,
                    UserNotFoundExceptionError, IncorrectPasswordExceptionError}
                  \cup {UserAlreadyExistsExceptionError(e) : e \in Emails} :
          /\ err.status_code = StatusOf(err.error_code)
          /\ \A headers \in {{}, BearerChallenge} :
                LET http == http_exception_handler(Reraise(err, headers))
                IN  /\ http.status = StatusOf(err.error_code)
                    /\ http.code = HttpCode(StatusOf(err.error_code))
    /\ \A w \in Workers :
          resp[w].err # NoError
          => /\ resp[w].http.status = StatusOf(resp[w].err.error_code)
             /\ resp[w].http.code = HttpCode(StatusOf(resp[w].err.error_code))
    /\ \A uc \in UserCreates(Emails, Passwords, Profiles), salt \in Salts :
          LET r == create_user_insert(users, uc, salt)
          IN  r.raised # NoError
              => http_exception_handler(Reraise(r.raised, {})).status = 409
    /\ \A tok \in held \cup {MalformedToken} :
          LET r == extract_email_from_token(tok, now)
          IN  r.raised # NoError
              => MeOutcome(tok, users, now).http.status = StatusOf(r.raised.error_code)

\* A failure of each kind the service raises has been answered: the last one
\* was IncorrectPassword, for a user who is registered under another email too.
C18_FailureAnswered ==
    /\ resp[1].op = "update_password"
    /\ resp[1].err = IncorrectPasswordExceptionError
    /\ resp[1].http.status = 400
    /\ \A e \in Emails : QueryByEmail(users, e) # {}

(* C19: a failure of the directory that is not a duplicate email, such as a
   constraint violation on another column, is answered as the generic internal
   failure (500, INTERNAL_SERVER_ERROR) and not as a domain error. *)
C19_DirectoryFailureIsInternal ==
    \A w \in Workers :
        (resp[w].op = "register" /\ resp[w].cause = NotNullViolation)
        => /\ resp[w].http = generic_exception_handler
           /\ resp[w].err = NoError

(* C20: a register or change-password request whose (new) password is
   shorter than 8 characters is turned away by the schema before the service
   runs and changes no record, so no user ever has a password shorter than 8. *)
C20_MinLengthAtBoundary ==
    /\ [](/\ \A e \in Emails :
               lastpw[e] # None => PasswordLen(lastpw[e]) >= MIN_PASSWORD_LENGTH
          /\ \A u \in users, p \in Passwords :
               verify_password(p, u.password_hash) => PasswordLen(p) >= MIN_PASSWORD_LENGTH
          /\ \A w \in Workers :
               (pending[w] # NoUserCreate)
               => PasswordLen(pending[w].password) >= MIN_PASSWORD_LENGTH)
    /\ [][resp'[1].http = ValidationResponse
          => /\ ~resp'[1].handler
             /\ users' = users
             /\ lastpw' = lastpw
             /\ pending' = pending]_vars

\* A change of password to one shorter than 8 characters, sent with a good
\* token, was turned away.
C20_ShortNewPasswordRefused ==
    /\ resp[1].op = "update_password"
    /\ resp[1].http = ValidationResponse
    /\ ActiveUser(resp[1].req)

(* C21: what verify_token answers for a token at a clock value is the same
   before and after every operation that leaves the clock alone (logins that
   hand out other tokens, password changes, profile updates, deactivation),
   and a token accepted before a successful change of password is accepted
   after it, at the gate too. *)
C21_TokenValidityStateless ==
    [][/\ (now' = now)
          => \A tok \in held \cup held' \cup {MalformedToken} :
                verify_token(tok, now)' = verify_token(tok, now)
       /\ (resp'[1].op = "update_password" /\ resp'[1].http.status = 200)
          => \A tok \in held :
                /\ verify_token(tok, now).raised = NoError
                   => verify_token(tok, now').raised = NoError
                /\ Gate(tok, users, now).exc = NoException
                   => Gate(tok, users', now').exc = NoException]_vars

\* A password was changed to another one, and the token issued before the
\* change is still accepted for that user.
C21_OldTokenStillGood ==
    /\ resp[1].op = "update_password"
    /\ resp[1].http.status = 200
    /\ resp[1].pw # lastpw[resp[1].req]
    /\ \E tok \in held :
          /\ tok.payload.sub = resp[1].req
          /\ verify_token(tok, now).raised = NoError
          /\ Gate(tok, users, now).exc = NoException

(* C22: a successful register adds exactly one record, with the requested
   email and profile fields, active = true, the hash of the requested password
   and an id no earlier record has, and leaves every earlier record as it was. *)
C22_RegisterAddsOneRecord ==
    [][(resp'[1].op = "register" /\ resp'[1].http.status = 201)
       => \E v \in users' :
             /\ v \notin users
             /\ users' = users \cup {v}
             /\ Cardinality(users') = Cardinality(users) + 1
             /\ v.email = pending[1].email
             /\ v.email = resp'[1].req
             /\ v.active
             /\ \A u \in users : u.id # v.id
             /\ \A f \in ProfileFields : v[f] = pending[1].profile[f]
             /\ verify_password(pending[1].password, v.password_hash)]_vars

\* A second user was registered next to an earlier one.
C22_SecondUserRegistered ==
    /\ resp[1].op = "register"
    /\ resp[1].http.status = 201
    /\ Cardinality(users) = 2
    /\ \E u \in users : u.email # resp[1].req /\ u.first_name = "Bob"

(* C23: update_user changes no field but the profile fields its request
   sets, change_password changes no field but password_hash, and neither
   changes the id, email or active flag of the user or any field of another
   user's record. *)
C23_IdentityImmutable ==
    [][/\ resp'[1].op = "update_user"
          => /\ Cardinality(users') = Cardinality(users)
             /\ \A u \in users :
                   \E v \in users' :
                      /\ v.id = u.id
                      /\ u.email # resp'[1].req => v = u
                      /\ \A f \in DOMAIN u :
                            (v[f] # u[f])
                            => /\ f \in ProfileFields
                               /\ \E body \in Updates : f \in DOMAIN body /\ v[f] = body[f]
       /\ resp'[1].op = "update_password"
          => /\ Cardinality(users') = Cardinality(users)
             /\ \A u \in users :
                   \E v \in users' :
                      /\ v.id = u.id
                      /\ u.email # resp'[1].req => v = u
                      /\ \A f \in DOMAIN u : (v[f] # u[f]) => f = "password_hash"]_vars

\* One of two users updated the profile and the other's record is as it was
\* registered.
C23_ProfileUpdatedNextToAnother ==
    /\ resp[1].op = "update_user"
    /\ resp[1].http.status = 200
    /\ \E u, v \in users :
          /\ u.email = resp[1].req /\ u.first_name = "Bob" /\ u.last_name = "Lee"
          /\ v.email # resp[1].req /\ v.first_name = "Ann"

(* C24: the claims create_access_token signs have type "access" and the exp
   and iat the codec computes, whatever the caller's dictionary holds under
   those keys; every other key of the dictionary is kept, and the dictionary
   itself is as the caller passed it. *)
C24_CodecSetsItsClaims ==
    /\ \A data \in TokenData, drift \in 0..MaxDrift :
          LET ttl == ACCESS_TOKEN_EXPIRE_MINUTES * 60
              tok == create_access_token(data, ttl, now, now + drift)
              claims == verify_token(tok, now + drift).payload
          IN  /\ tok.payload = claims
              /\ DOMAIN claims = (DOMAIN data) \cup CodecClaims
              /\ claims.type = "access"
              /\ claims.exp = EpochSeconds(now + ttl * TicksPerSecond)
              /\ claims.iat = EpochSeconds(now + drift)
              /\ \A k \in (DOMAIN data) \ CodecClaims : claims[k] = data[k]
              /\ CallerData(data, ttl, now, now + drift) = data
    /\ \A tok \in held : tok.payload.type = "access"

\* The clock has moved past its first second, a login has been answered with
\* a token, and a caller's own exp, iat and type all differ from the codec's.
C24_CallerClaimsOverwritten ==
    /\ now >= TicksPerSecond
    /\ resp[1].op = "login"
    /\ resp[1].http.status = 200
    /\ \E data \in TokenData :
          LET claims == ToEncode(data, ACCESS_TOKEN_EXPIRE_MINUTES * 60, now, now)
          IN  /\ CodecClaims \subseteq DOMAIN data
              /\ claims.exp # data.exp
              /\ claims.iat # data.iat
              /\ claims.type # data.type

\* The id of the user registered under an email.
UserIdOf(email) == (CHOOSE u \in users : u.email = email).id

\* The active payment methods of a user.
ActiveMethodsOf(user_id) == {m \in methods : m.user_id = user_id /\ m.active}

PaymentOps ==
    {"get_payment_methods", "create_payment_method", "get_payment_method",
     "update_payment_method", "delete_payment_method"}

(* C25: no user owns two active payment methods with the same name. *)
C25_ActiveNamesUnique ==
    \A m1, m2 \in methods :
        (m1.user_id = m2.user_id /\ m1.name = m2.name /\ m1.active /\ m2.active)
        => m1 = m2

(* C26: the get, update and delete endpoints resolve a payment method only
   for the user who owns it; an id of another user's method is answered
   PaymentMethodNotFound (404) as an id no row has would be; no request returns
   a row of another user, and none changes one. *)
C26_PaymentMethodsIsolated ==
    /\ [](/\ \A tok \in held, id \in MethodIds :
               LET g == Gate(tok, users, now)
               IN  g.exc = NoException
                   => /\ \A m \in PaymentMethodDep(methods, id, g) :
                            m.id = id /\ m.user_id = IdOf(g.user)
                      /\ (\E m \in methods : m.id = id /\ m.user_id # IdOf(g.user))
                         => PaymentMethodDep(methods, id, g) = {}
          /\ (resp[1].op \in PaymentOps /\ resp[1].req # None)
             => /\ \A m \in resp[1].body.returned : m.user_id = UserIdOf(resp[1].req)
                /\ (/\ resp[1].op \in {"get_payment_method", "update_payment_method",
                                        "delete_payment_method"}
                    /\ \A m \in methods :
                          m.id = resp[1].body.payment_method_id
                          => m.user_id # UserIdOf(resp[1].req))
                   => /\ resp[1].http.status = 404
                      /\ resp[1].http =
                            app_exception_handler(PaymentMethodNotFoundExceptionError(
                                resp[1].body.payment_method_id))
                      /\ ~resp[1].handler)
    /\ [][resp'[1].op \in PaymentOps
          => IF resp'[1].req = None THEN methods' = methods
             ELSE /\ \A m \in methods : m.user_id # UserIdOf(resp'[1].req) => m \in methods'
                  /\ \A m \in methods' \ methods : m.user_id = UserIdOf(resp'[1].req)]_vars

\* A user asked to update a payment method that another user owns and was
\* answered 404; the method is as its owner left it.
C26_OthersMethodNotFound ==
    /\ resp[1].op = "update_payment_method"
    /\ resp[1].req # None
    /\ resp[1].http.status = 404
    /\ \E m \in methods :
          /\ m.id = resp[1].body.payment_method_id
          /\ m.user_id # UserIdOf(resp[1].req)
          /\ m.active

(* C27: each user has at most MAX_PAYMENT_METHODS_PER_USER active payment
   methods. *)
C27_ActiveMethodsWithinLimit ==
    \A u \in users : Cardinality(ActiveMethodsOf(u.id)) <= MAX_PAYMENT_METHODS_PER_USER

(* C28: a delete removes no row: it sets active to false on the row it
   names and changes no other field and no other row; on a row that is already
   inactive it succeeds and changes nothing; an inactive row is still resolved
   for its owner by id and is in the owner's unfiltered list. *)
C28_SoftDelete ==
    /\ [](\A tok \in held, m \in methods :
            LET g == Gate(tok, users, now)
            IN  (g.exc = NoException /\ m.user_id = IdOf(g.user) /\ ~m.active)
                => /\ PaymentMethodDep(methods, m.id, g) = {m}
                   /\ m \in get_payment_methods(methods, IdOf(g.user), "any")
                   /\ delete_payment_method(methods, m) = methods)
    /\ [][(resp'[1].op = "delete_payment_method" /\ resp'[1].http.status = 204)
          => \E m \in methods :
                /\ m.id = resp'[1].body.payment_method_id
                /\ m.user_id = UserIdOf(resp'[1].req)
                /\ methods' = (methods \ {m}) \cup {[m EXCEPT !.active = FALSE]}
                /\ Cardinality(methods') = Cardinality(methods)
                /\ ~m.active => methods' = methods]_vars

\* A payment method was deleted: its row is there, inactive, next to another
\* row, and its owner still holds a good token.
C28_DeletedRowKept ==
    /\ resp[1].op = "delete_payment_method"
    /\ resp[1].http.status = 204
    /\ Cardinality(methods) = MaxMethods
    /\ \E m \in methods, tok \in held :
          /\ m.id = resp[1].body.payment_method_id
          /\ ~m.active
          /\ Gate(tok, users, now).exc = NoException
          /\ m.user_id = IdOf(Gate(tok, users, now).user)

====
